---- MODULE Spec2Model ----
(***************************************************************************)
(* State-machine model of src/server.py, the vnprices tool server: eight   *)
(* tool functions that forward a request to a backend adapter of the       *)
(* vnstock library and shape the outcome into one response string.         *)
(*                                                                         *)
(* Python strings are TLA+ strings (sequences of characters): \o is        *)
(* concatenation, SubSeq is slicing.  The backend (vnstock, the network    *)
(* behind it) is the environment: what its constructors, its fetch and its *)
(* flatten helper do is drawn with \E from the sets below.                 *)
(***************************************************************************)
EXTENDS Integers, Sequences, FiniteSets, TLC

VARIABLES
    tool,       \* name of the tool function of the latest call, "none" before any
    args,       \* keyword arguments of the latest call, as the caller wrote them
    backend,    \* what the backend did during the latest call (environment)
    trace,      \* the backend operations the latest call invoked, in order
    response,   \* string returned by the latest call ("" if it returned nothing)
    raised,     \* throwable that escaped the latest call (NoException if none)
    repeat,     \* the latest call had the tool and arguments of the one before
    first,      \* record of the first call made, kept when it is a probe
    calls       \* the calls running concurrently, statement by statement
                \* (SpecConcurrent); << >> when calls are served one at a time

vars == <<tool, args, backend, trace, response, raised, repeat, first, calls>>

-----------------------------------------------------------------------------
(* Bounds of the model *)

\* rows of a table the backend returns
MaxRows == 3

-----------------------------------------------------------------------------
(* Python strings *)

StartsWith(s, p) == Len(s) >= Len(p) /\ SubSeq(s, 1, Len(p)) = p

Contains(s, p) == \E i \in 0..(Len(s) - Len(p)) : SubSeq(s, i + 1, i + Len(p)) = p

LowerToUpper ==
    [c \in {"a","b","c","d","e","f","g","h","i","j","k","l","m",
            "n","o","p","q","r","s","t","u","v","w","x","y","z"} |->
        CASE c = "a" -> "A" [] c = "b" -> "B" [] c = "c" -> "C" [] c = "d" -> "D"
          [] c = "e" -> "E" [] c = "f" -> "F" [] c = "g" -> "G" [] c = "h" -> "H"
          [] c = "i" -> "I" [] c = "j" -> "J" [] c = "k" -> "K" [] c = "l" -> "L"
          [] c = "m" -> "M" [] c = "n" -> "N" [] c = "o" -> "O" [] c = "p" -> "P"
          [] c = "q" -> "Q" [] c = "r" -> "R" [] c = "s" -> "S" [] c = "t" -> "T"
          [] c = "u" -> "U" [] c = "v" -> "V" [] c = "w" -> "W" [] c = "x" -> "X"
          [] c = "y" -> "Y" [] c = "z" -> "Z"]

RECURSIVE upper(_)
\* str.upper(): every cased character replaced by its upper-case form
upper(s) ==
    IF s = "" THEN ""
    ELSE (IF Head(s) \in DOMAIN LowerToUpper THEN LowerToUpper[Head(s)] ELSE Head(s))
         \o upper(Tail(s))

Digit == [d \in 0..9 |-> SubSeq("0123456789", d + 1, d + 1)]

RECURSIVE NatToStr(_)
NatToStr(n) == IF n < 10 THEN Digit[n] ELSE NatToStr(n \div 10) \o Digit[n % 10]

\* decimal rendering of an integer, as in JSON
IntToStr(n) == IF n < 0 THEN "-" \o NatToStr(-n) ELSE NatToStr(n)

-----------------------------------------------------------------------------
(* Throwables and outcomes of a backend operation *)

\* classes derived from Exception, which `except Exception` catches
ExceptionClasses ==
    {"Exception", "ValueError", "ConnectionError", "AttributeError", "TypeError"}
\* classes derived from BaseException only
BaseOnlyClasses == {"KeyboardInterrupt", "SystemExit"}

Raise(cls, msg) == [cls |-> cls, msg |-> msg, kind |-> "raise"]
Return(v) == [kind |-> "return", value |-> v]
Ok == [kind |-> "ok"]
Unreached == [kind |-> "unreached"]

IsRaise(o) == o.kind = "raise"

NoException == [kind |-> "none"]
\* Python's None, the value of `df` when the backend returns nothing
None == [py |-> "None"]

\* str(e): the message of the exception
str(e) == e.msg

-----------------------------------------------------------------------------
(* Tables (pandas DataFrame) and their serialization *)

\* A table is [columns |-> sequence of labels, rows |-> sequence of rows]; a
\* label is a sequence of level names (one name: a single-level column), a
\* row a sequence of cells, a cell a number, a text or a timestamp.
Num(n) == [s |-> "", v |-> n, cell |-> "num"]
Text(s) == [s |-> s, v |-> 0, cell |-> "text"]
Time(d) == [s |-> d, v |-> 0, cell |-> "time"]

Table(columns, rows) == [columns |-> columns, rows |-> rows]

\* DataFrame.empty: some axis has length 0
empty(df) == Len(df.columns) = 0 \/ Len(df.rows) = 0

IsUnique(seq) == \A i, j \in 1..Len(seq) : seq[i] = seq[j] => i = j

IsFlat(df) == \A i \in 1..Len(df.columns) : Len(df.columns[i]) = 1

\* JSON text of one cell; date_format="iso" writes a timestamp as ISO-8601
CellJson(c) ==
    CASE c.cell = "num" -> IntToStr(c.v)
      [] c.cell = "text" -> "\"" \o c.s \o "\""
      [] c.cell = "time" -> "\"" \o c.s \o "T00:00:00.000" \o "\""

\* key of a column in a row object: the name of a single-level label, the
\* text of the tuple for a label of two levels
LabelJson(label) ==
    IF Len(label) = 1 THEN label[1]
    ELSE "('" \o label[1] \o "', '" \o label[2] \o "')"

RECURSIVE RowJson(_, _, _)
\* the "name":value members of one row object from column i on, indent=2
RowJson(columns, row, i) ==
    IF i > Len(columns) THEN ""
    ELSE "    \"" \o LabelJson(columns[i]) \o "\":" \o CellJson(row[i])
         \o (IF i < Len(columns) THEN ",\n" ELSE "\n")
         \o RowJson(columns, row, i + 1)

RECURSIVE RowsJson(_, _)
\* the row objects of the array from row i on
RowsJson(df, i) ==
    IF i > Len(df.rows) THEN ""
    ELSE "  {\n" \o RowJson(df.columns, df.rows[i], 1) \o "  }"
         \o (IF i < Len(df.rows) THEN ",\n" ELSE "\n")
         \o RowsJson(df, i + 1)

\* text written by df.to_json(orient="records", date_format="iso", indent=2)
JsonText(df) == "[\n" \o RowsJson(df, 1) \o "]"

\* a serialization that first puts the rows in ascending order of their
\* first column
to_json_SortedRows(df) ==
    LET n == Len(df.rows)
        order == CHOOSE p \in [1..n -> 1..n] :
                    /\ \A i, j \in 1..n : p[i] = p[j] => i = j
                    /\ \A i, j \in 1..n : i < j => df.rows[p[i]][1].v <= df.rows[p[j]][1].v
        sorted == Table(df.columns, [i \in 1..n |-> df.rows[order[i]]])
    IN  IF IsUnique(df.columns)
        THEN Return(JsonText(sorted))
        ELSE Raise("ValueError", "DataFrame columns must be unique for orient='records'.")

\* df.to_json(orient="records", ...): pandas refuses a table whose column
\* labels are not unique, otherwise returns the JSON text
to_json(df) ==
    IF IsUnique(df.columns)
    THEN Return(JsonText(df))
    ELSE Raise("ValueError", "DataFrame columns must be unique for orient='records'.")

-----------------------------------------------------------------------------
(* The tool functions *)

\* str(e) alone, without the fixed text in front
Handle_BareMessage(e, prefix, ops) ==
    IF e.cls \in ExceptionClasses THEN [trace |-> ops, response |-> str(e), raised |-> NoException]
    ELSE [trace |-> ops, response |-> "", raised |-> e]

\* what a call gives its caller: a returned string, or a throwable that
\* escapes; with the backend operations it invoked
Returned(text, ops) == [trace |-> ops, response |-> text, raised |-> NoException]
Propagated(e, ops) == [trace |-> ops, response |-> "", raised |-> e]

\* a bare `except:`, which catches every throwable
except_BaseException(e) == e.cls \in ExceptionClasses \cup BaseOnlyClasses

\* `except Exception as e`: does the clause catch e
except_Exception(e) == e.cls \in ExceptionClasses

\* the handler returning the fixed text without the message of e
Handle_NoMessage(e, prefix, ops) ==
    IF except_Exception(e) THEN Returned(prefix, ops) ELSE Propagated(e, ops)

\* try: ... except Exception as e: return f"{prefix}{str(e)}"
Handle(e, prefix, ops) ==
    IF except_Exception(e) THEN Returned(prefix \o str(e), ops) ELSE Propagated(e, ops)

\* the test without `or df.empty`
NoData_NoneOnly(df) == df = None

\* `if df is None or df.empty`
NoData(df) == df = None \/ empty(df)

\* objects other than None and a table that a fetch can return: they have no
\* attribute `empty`
NotTables == {[py |-> "dict"]}

\* the evaluation of `df is None or df.empty`: True, False, or the
\* AttributeError of an object that has no attribute `empty`
NoDataTest(df) ==
    IF df \in NotTables
    THEN Raise("AttributeError", "'" \o df.py \o "' object has no attribute 'empty'")
    ELSE Return(NoData(df))

\* a body that fetches a second time when the first fetch raised
Body_Retry(construct, fetch, flatten, be, nodata, prefix) ==
    IF IsRaise(be.construct) THEN Handle(be.construct, prefix, construct)
    ELSE IF IsRaise(be.fetch) THEN Handle(be.fetch, prefix, construct \o <<fetch, fetch>>)
    ELSE IF NoData(be.fetch.value) THEN Returned(nodata, construct \o <<fetch>>)
    ELSE LET df == IF flatten = <<>> THEN Return(be.fetch.value) ELSE be.flatten
             ops == construct \o <<fetch>> \o flatten
         IN  IF IsRaise(df) THEN Handle(df, prefix, ops)
             ELSE IF IsRaise(to_json(df.value))
                  THEN Handle(to_json(df.value), prefix, ops \o <<[op |-> "to_json"]>>)
                  ELSE Returned(to_json(df.value).value, ops \o <<[op |-> "to_json"]>>)

\* the statements every tool shares: construct the adapter, fetch once, test
\* for no data, (ratios only) flatten, serialize; any raise goes to Handle
Body(construct, fetch, flatten, be, nodata, prefix) ==
    IF IsRaise(be.construct) THEN Handle(be.construct, prefix, construct)
    ELSE IF IsRaise(be.fetch) THEN Handle(be.fetch, prefix, construct \o <<fetch>>)
    ELSE LET df == be.fetch.value
             fetched == construct \o <<fetch>>
         IN  IF IsRaise(NoDataTest(df)) THEN Handle(NoDataTest(df), prefix, fetched)
             ELSE IF NoData(df) THEN Returned(nodata, fetched)
             ELSE IF flatten = <<>>
             THEN LET json == to_json(df)
                      ops == fetched \o <<[op |-> "to_json"]>>
                  IN  IF IsRaise(json) THEN Handle(json, prefix, ops)
                      ELSE Returned(json.value, ops)
             ELSE IF IsRaise(be.flatten) THEN Handle(be.flatten, prefix, fetched \o flatten)
             ELSE LET json == to_json(be.flatten.value)
                      ops == fetched \o flatten \o <<[op |-> "to_json"]>>
                  IN  IF IsRaise(json) THEN Handle(json, prefix, ops)
                      ELSE Returned(json.value, ops)

\* Quote(symbol=symbol, source="VCI")
Quote(symbol) == <<[op |-> "Quote", symbol |-> symbol, source |-> "VCI"]>>

\* Vnstock().fx / .crypto / .world_index / .stock (symbol=..., source=...)
Vnstock(wrapper, symbol, source) ==
    <<[op |-> "Vnstock"], [op |-> wrapper, symbol |-> symbol, source |-> source]>>

\* an interval outside 1D, 1W, 1M replaced by the default before the fetch
history_KnownInterval(start_date, end_date, interval) ==
    [op |-> "history",
     interval |-> IF interval \in {"1D", "1W", "1M"} THEN interval ELSE "1D",
     start |-> start_date, end |-> end_date]

\* quote.history(start=start_date, end=end_date, interval=interval)
history(start_date, end_date, interval) ==
    [op |-> "history", interval |-> interval, start |-> start_date, end |-> end_date]

\* the statement fetched in English whatever the caller's lang
statement_English(name, lang) == [op |-> name, lang |-> "en", period |-> "year"]

\* finance.<statement>(period="year", lang=lang)
statement(name, lang) == [op |-> name, lang |-> lang, period |-> "year"]

\* a tool that keeps answering with the error sentinel of the call before
get_stock_history_Sticky(symbol, start_date, end_date, interval, be) ==
    IF StartsWith(response, "Error fetching") THEN Returned(response, <<>>)
    ELSE Body(Quote(symbol), history(start_date, end_date, interval), <<>>, be,
              "No data found for " \o symbol \o " between " \o start_date \o " and " \o end_date,
              "Error fetching stock data: ")

get_stock_history(symbol, start_date, end_date, interval, be) ==
    Body(Quote(symbol), history(start_date, end_date, interval), <<>>, be,
         "No data found for " \o symbol \o " between " \o start_date \o " and " \o end_date,
         "Error fetching stock data: ")

\* the forex tool choosing its adapter by the symbol, as the index tool does
get_forex_history_BySymbol(symbol, start_date, end_date, interval, be) ==
    Body(IF upper(symbol) = symbol THEN Quote(symbol) ELSE Vnstock("fx", symbol, "MSN"),
         history(start_date, end_date, interval), <<>>, be,
         "No forex data found for " \o symbol \o " between " \o start_date \o " and " \o end_date,
         "Error fetching forex data: ")

get_forex_history(symbol, start_date, end_date, interval, be) ==
    Body(Vnstock("fx", symbol, "MSN"), history(start_date, end_date, interval), <<>>, be,
         "No forex data found for " \o symbol \o " between " \o start_date \o " and " \o end_date,
         "Error fetching forex data: ")

get_crypto_history(symbol, start_date, end_date, interval, be) ==
    Body(Vnstock("crypto", symbol, "MSN"), history(start_date, end_date, interval), <<>>, be,
         "No crypto data found for " \o symbol \o " between " \o start_date \o " and " \o end_date,
         "Error fetching crypto data: ")

\* A str object is represented by its text; an int object passed where a str
\* is expected by the text its formatting gives, listed here: the int 123
IntTexts == {"123"}

\* symbol.upper(): the upper-cased text, or the AttributeError of an object
\* that has no such method
symbol_upper(symbol) ==
    IF symbol \in IntTexts
    THEN Raise("AttributeError", "'int' object has no attribute 'upper'")
    ELSE Return(upper(symbol))

\* symbol.upper() evaluated before the try block: its raise leaves the function
UpperThen_OutsideTry(symbol, prefix, ops, r) ==
    IF IsRaise(symbol_upper(symbol)) THEN Propagated(symbol_upper(symbol), ops) ELSE r

\* symbol.upper() evaluated inside the try block after the operations ops: a
\* raise goes to the handler, otherwise the body goes on and gives r
UpperThen(symbol, prefix, ops, r) ==
    IF IsRaise(symbol_upper(symbol)) THEN Handle(symbol_upper(symbol), prefix, ops) ELSE r

vietnam_indices == {"VNINDEX", "HNXINDEX", "UPCOMINDEX"}

\* the test without .upper()
IsVietnamIndex_CaseSensitive(symbol) == symbol \in vietnam_indices

\* `if symbol.upper() in vietnam_indices`
IsVietnamIndex(symbol) == upper(symbol) \in vietnam_indices

\* the index tool querying its adapter with the upper-cased symbol
get_index_history_UpperSymbol(symbol, start_date, end_date, interval, be) ==
    Body(IF IsVietnamIndex(symbol) THEN Quote(upper(symbol))
         ELSE Vnstock("world_index", upper(symbol), "MSN"),
         history(start_date, end_date, interval), <<>>, be,
         "No index data found for " \o symbol \o " between " \o start_date \o " and " \o end_date,
         "Error fetching index data: ")

get_index_history(symbol, start_date, end_date, interval, be) ==
    UpperThen(symbol, "Error fetching index data: ", << >>,
        Body(IF IsVietnamIndex(symbol) THEN Quote(symbol)
             ELSE Vnstock("world_index", symbol, "MSN"),
             history(start_date, end_date, interval), <<>>, be,
             "No index data found for " \o symbol \o " between " \o start_date
                 \o " and " \o end_date,
             "Error fetching index data: "))

\* the statement adapter constructed for the symbol as the caller wrote it
Finance_AsWritten(symbol) == Vnstock("stock", symbol, "VCI") \o <<[op |-> "finance"]>>

\* Vnstock().stock(symbol=symbol.upper(), source="VCI"); stock.finance
Finance(symbol) == Vnstock("stock", upper(symbol), "VCI") \o <<[op |-> "finance"]>>

\* flatten_hierarchical_index(df, separator="_", handle_duplicates=True, drop_levels=0)
flatten_hierarchical_index ==
    <<[op |-> "flatten_hierarchical_index", separator |-> "_",
       handle_duplicates |-> TRUE, drop_levels |-> 0]>>

get_income_statement(symbol, lang, be) ==
    UpperThen(symbol, "Error fetching income statement for " \o symbol \o ": ", <<[op |-> "Vnstock"]>>,
        Body(Finance(symbol), statement("income_statement", lang), <<>>, be,
             "No income statement data found for " \o symbol,
             "Error fetching income statement for " \o symbol \o ": "))

get_balance_sheet(symbol, lang, be) ==
    UpperThen(symbol, "Error fetching balance sheet for " \o symbol \o ": ", <<[op |-> "Vnstock"]>>,
        Body(Finance(symbol), statement("balance_sheet", lang), <<>>, be,
             "No balance sheet data found for " \o symbol,
             "Error fetching balance sheet for " \o symbol \o ": "))

\* the cash flow tool flattening the columns of the fetched table, as the
\* ratios tool does
get_cash_flow_Flattened(symbol, lang, be) ==
    LET r == Body(Finance(symbol), statement("cash_flow", lang), <<>>, be,
                  "No cash flow data found for " \o symbol,
                  "Error fetching cash flow for " \o symbol \o ": ")
    IN  IF ~IsRaise(be.construct) /\ ~IsRaise(be.fetch) /\ ~NoData(be.fetch.value)
        THEN [r EXCEPT !.trace = SubSeq(r.trace, 1, Len(r.trace) - 1)
                                   \o flatten_hierarchical_index
                                   \o <<r.trace[Len(r.trace)]>>]
        ELSE r

get_cash_flow(symbol, lang, be) ==
    UpperThen(symbol, "Error fetching cash flow for " \o symbol \o ": ", <<[op |-> "Vnstock"]>>,
        Body(Finance(symbol), statement("cash_flow", lang), <<>>, be,
             "No cash flow data found for " \o symbol,
             "Error fetching cash flow for " \o symbol \o ": "))

\* the ratios tool flattening the fetched table before it tests it for no data
get_financial_ratios_FlattenFirst(symbol, lang, be) ==
    LET r == Body(Finance(symbol), statement("ratio", lang), flatten_hierarchical_index, be,
                  "No financial ratio data found for " \o symbol,
                  "Error fetching financial ratios for " \o symbol \o ": ")
    IN  IF ~IsRaise(be.construct) /\ ~IsRaise(be.fetch) /\ NoData(be.fetch.value)
        THEN Returned(r.response, r.trace \o flatten_hierarchical_index)
        ELSE r

get_financial_ratios(symbol, lang, be) ==
    UpperThen(symbol, "Error fetching financial ratios for " \o symbol \o ": ",
        <<[op |-> "Vnstock"]>>,
        Body(Finance(symbol), statement("ratio", lang), flatten_hierarchical_index, be,
             "No financial ratio data found for " \o symbol,
             "Error fetching financial ratios for " \o symbol \o ": "))

-----------------------------------------------------------------------------
(* The signatures of the tool functions and the binding of a call *)

PriceTools ==
    {"get_stock_history", "get_forex_history", "get_crypto_history", "get_index_history"}
StatementTools ==
    {"get_income_statement", "get_balance_sheet", "get_cash_flow", "get_financial_ratios"}
\* the functions registered with @mcp.tool()
Tools == PriceTools \cup StatementTools

\* a parameter is <<name, default>>: the default is << >> when the parameter
\* has none, and <<value>> otherwise
Signature_Language(t) ==
    IF t \in PriceTools
    THEN << <<"symbol", << >> >>, <<"start_date", << >> >>, <<"end_date", << >> >>,
            <<"interval", <<"1D">> >> >>
    ELSE << <<"symbol", << >> >>, <<"language", <<"en">> >> >>

\* def get_stock_history(symbol: str, start_date: str, end_date: str, interval: str = "1D")
\* def get_income_statement(symbol: str, lang: str = "en")
Signature(t) ==
    IF t \in PriceTools
    THEN << <<"symbol", << >> >>, <<"start_date", << >> >>, <<"end_date", << >> >>,
            <<"interval", <<"1D">> >> >>
    ELSE << <<"symbol", << >> >>, <<"lang", <<"en">> >> >>

Parameters(t) == {Signature(t)[i][1] : i \in DOMAIN Signature(t)}

\* Python binding the keyword arguments kw of a call of t to t's parameters:
\* the values in parameter order, defaults filled in, or a TypeError raised at
\* the call, before the function body is entered
Bind(t, kw) ==
    LET sig == Signature(t)
        unexpected == DOMAIN kw \ Parameters(t)
        missing == {i \in DOMAIN sig : sig[i][2] = << >> /\ sig[i][1] \notin DOMAIN kw}
    IN  IF unexpected # {}
        THEN Raise("TypeError", t \o "() got an unexpected keyword argument '"
                                  \o (CHOOSE k \in unexpected : TRUE) \o "'")
        ELSE IF missing # {}
        THEN Raise("TypeError", t \o "() missing " \o IntToStr(Cardinality(missing))
                                  \o " required positional argument")
        ELSE Return([i \in DOMAIN sig |->
                        IF sig[i][1] \in DOMAIN kw THEN kw[sig[i][1]] ELSE sig[i][2][1]])

-----------------------------------------------------------------------------
(* The environment: what callers send and what the backend does *)

Symbols == {"VCI", "vci"}
\* a symbol the provider does not know
InvalidSymbols == {"INVALIDSYMBOL"}
IndexSymbols == {"VNINDEX", "vnindex", "HnxIndex", "UPCOMINDEX", "DJI"}
\* <<start_date, end_date, interval>> of the price-history requests: a month
\* by day, a start after the end, and dates and an interval no provider knows
Periods ==
    { <<"2024-01-01", "2024-01-31", "1D">>,
      <<"2024-01-31", "2024-01-01", "1W">>,
      <<"31/01/2024", "", "5m">> }
Langs == {"en", "vi"}

\* throwables a backend operation raises
Failures ==
    { Raise("ConnectionError", "Connection timed out"),
      Raise("ValueError", "No data found"),
      Raise("KeyboardInterrupt", "") }

PriceColumns == << <<"time">>, <<"open">>, <<"high">>, <<"low">>, <<"close">> >>
PriceRow(i) ==
    << Time("2024-01-0" \o IntToStr(i)), Num(10 + i), Num(12 + i), Num(9 + i), Num(11 + i) >>

PriceTables ==
    { Table(PriceColumns, [i \in 1..n |-> PriceRow(i)]) : n \in 0..MaxRows }
    \cup { Table(<< >>, << << >> >>),
           Table(<< <<"close">>, <<"close">> >>, << <<Num(11), Num(12)>> >>) }

\* the orders in which the backend lists the years 2021 .. 2020+n
YearOrders(n) ==
    { ys \in [1..n -> 2021..(2020 + n)] : \A i, j \in 1..n : ys[i] = ys[j] => i = j }

StatementColumns == << <<"yearReport">>, <<"Revenue (Bn. VND)">> >>
StatementTable(ys) ==
    Table(StatementColumns, [i \in 1..Len(ys) |-> <<Num(ys[i]), Num(ys[i] - 2000)>>])

StatementTables ==
    { StatementTable(ys) : ys \in UNION { YearOrders(n) : n \in 0..MaxRows } }

RatioColumns ==
    { << <<"Meta", "yearReport">>, <<"Valuation", "P/B">>, <<"Profitability", "ROE">> >>,
      << <<"Meta", "yearReport">>, <<"Valuation", "P/B">>, <<"Results", "P/B">> >> }
RatioTable(columns, n) ==
    Table(columns, [i \in 1..n |-> <<Num(2021 + n - i), Num(i), Num(10 + i)>>])

RatioTables ==
    { RatioTable(columns, n) : columns \in RatioColumns, n \in {0, 1, MaxRows} }
    \cup { StatementTable(<<2022, 2021>>) }

RECURSIVE Joined(_, _, _)
\* the names of the levels of a label from level i on, joined with the separator
Joined(label, separator, i) ==
    IF i >= Len(label) THEN label[Len(label)]
    ELSE label[i] \o separator \o Joined(label, separator, i + 1)

\* names after drop_levels=0: level 0 dropped, the remaining levels joined
Dropped(df) ==
    [i \in 1..Len(df.columns) |->
        IF Len(df.columns[i]) = 1 THEN df.columns[i][1]
        ELSE Joined(df.columns[i], "_", 2)]

\* a repeated name followed by the number of its earlier occurrences
Suffixed(names) ==
    [i \in 1..Len(names) |->
        LET k == Cardinality({j \in 1..(i - 1) : names[j] = names[i]})
        IN  IF k = 0 THEN names[i] ELSE names[i] \o "_" \o IntToStr(k)]

Renamed(df, names) == Table([i \in 1..Len(names) |-> <<names[i]>>], df.rows)

\* flatten_hierarchical_index is a function of the vnstock library: it raises,
\* or returns the table under single-level names, repeated names kept or
\* told apart
FlattenOutcomes(df) ==
    { Raise("ValueError", "Cannot flatten"),
      Return(Renamed(df, Dropped(df))),
      Return(Renamed(df, Suffixed(Dropped(df)))) }

\* what the backend does during one call: adapter construction, then the
\* fetch, then (ratios) the flattening
Backends(tables) ==
    { [fetch |-> Unreached, construct |-> f, flatten |-> Unreached] : f \in Failures }
    \cup { [fetch |-> f, construct |-> Ok, flatten |-> Unreached] : f \in Failures }
    \cup { [fetch |-> Return(t), construct |-> Ok, flatten |-> Unreached] :
             t \in tables \cup {None} }

PriceBackends == Backends(PriceTables)
StatementBackends == Backends(StatementTables)

RatioBackends ==
    { be \in Backends(RatioTables) : IsRaise(be.construct) \/ IsRaise(be.fetch)
                                      \/ NoData(be.fetch.value) }
    \cup UNION { { [fetch |-> Return(t), construct |-> Ok, flatten |-> fl] :
                     fl \in FlattenOutcomes(t) } : t \in {d \in RatioTables : ~empty(d)} }

-----------------------------------------------------------------------------
(* The state machine: one action per tool function *)

\* `first` before any call, and after a first call that is not remembered;
\* otherwise <<tool, args, backend, response, raised>> of the first call
NoCall == << >>
Untracked == <<"untracked">>

PriceArgs(symbol, period) ==
    [symbol |-> symbol, start_date |-> period[1], end_date |-> period[2], interval |-> period[3]]

StatementArgs(symbol, lang) == [symbol |-> symbol, lang |-> lang]

\* the calls callers make of a price-history tool: every parameter given, or
\* interval left out
PriceCalls(symbols) ==
    { PriceArgs(symbol, period) : symbol \in symbols, period \in Periods }
    \cup { [symbol |-> "VCI", start_date |-> "2024-01-01", end_date |-> "2024-01-31"] }

\* the calls callers make of a statement tool: both parameters given, lang
\* left out, or the language given under the keyword `language`
StatementCalls(symbols) ==
    { StatementArgs(symbol, lang) : symbol \in symbols, lang \in Langs }
    \cup { [symbol |-> "VCI"], [symbol |-> "VCI", language |-> "vi"] }

\* the first calls whose outcome is remembered, for later calls to be compared
\* with: two of the tools, one request each, the fetch failing or returning
\* a one-row table
ProbeTools == {"get_stock_history", "get_financial_ratios"}
ProbeArgs ==
    { PriceArgs("VCI", <<"2024-01-01", "2024-01-31", "1D">>), StatementArgs("VCI", "en") }
NoArgs == [symbol |-> ""]
NoBackend == [fetch |-> Unreached, construct |-> Unreached, flatten |-> Unreached]

IsProbe(t, a, be) ==
    /\ t \in ProbeTools
    /\ a \in ProbeArgs
    /\ be.construct = Ok
    /\ \/ be.fetch = Raise("ConnectionError", "Connection timed out")
       \/ /\ ~IsRaise(be.fetch)
          /\ be.fetch.value \notin NotTables
          /\ ~NoData(be.fetch.value)
          /\ Len(be.fetch.value.rows) = 1
          /\ IsUnique(be.fetch.value.columns)
          /\ be.flatten \in {Unreached, Return(Renamed(be.fetch.value, Dropped(be.fetch.value)))}

Init ==
    /\ tool = "none"
    /\ args = NoArgs
    /\ backend = NoBackend
    /\ trace = << >>
    /\ response = ""
    /\ raised = NoException
    /\ repeat = FALSE
    /\ first = NoCall
    /\ calls = << >>

\* a call of tool t with arguments a during which the backend does be, with result r
Call(t, a, be, r) ==
    /\ tool' = t
    /\ args' = a
    /\ backend' = be
    /\ trace' = r.trace
    /\ response' = r.response
    /\ raised' = r.raised
    /\ repeat' = (tool = t /\ args = a)
    /\ first' = IF first # NoCall THEN first
                ELSE IF IsProbe(t, a, be)
                THEN <<t, a, be, r.response, r.raised>>
                ELSE Untracked
    /\ UNCHANGED calls

\* when the binding b of a call's arguments raised, the body of the tool is
\* not entered: the backend is not reached and b goes to the caller
Reached(b, be) == IF IsRaise(b) THEN NoBackend ELSE be
Entered(b, r) == IF IsRaise(b) THEN Propagated(b, << >>) ELSE r

Call_get_stock_history ==
    \E kw \in PriceCalls(Symbols), be \in PriceBackends :
        \E b \in {Bind("get_stock_history", kw)} :
            Call("get_stock_history", kw, Reached(b, be),
                 Entered(b, get_stock_history(b.value[1], b.value[2], b.value[3], b.value[4], be)))

Call_get_forex_history ==
    \E kw \in PriceCalls(Symbols), be \in PriceBackends :
        \E b \in {Bind("get_forex_history", kw)} :
            Call("get_forex_history", kw, Reached(b, be),
                 Entered(b, get_forex_history(b.value[1], b.value[2], b.value[3], b.value[4], be)))

Call_get_crypto_history ==
    \E kw \in PriceCalls(Symbols), be \in PriceBackends :
        \E b \in {Bind("get_crypto_history", kw)} :
            Call("get_crypto_history", kw, Reached(b, be),
                 Entered(b, get_crypto_history(b.value[1], b.value[2], b.value[3], b.value[4], be)))

Call_get_index_history ==
    \E kw \in PriceCalls(IndexSymbols), be \in PriceBackends :
        \E b \in {Bind("get_index_history", kw)} :
            Call("get_index_history", kw, Reached(b, be),
                 Entered(b, get_index_history(b.value[1], b.value[2], b.value[3], b.value[4], be)))

Call_get_income_statement ==
    \E kw \in StatementCalls(Symbols \cup InvalidSymbols), be \in StatementBackends :
        \E b \in {Bind("get_income_statement", kw)} :
            Call("get_income_statement", kw, Reached(b, be),
                 Entered(b, get_income_statement(b.value[1], b.value[2], be)))

Call_get_balance_sheet ==
    \E kw \in StatementCalls(Symbols), be \in StatementBackends :
        \E b \in {Bind("get_balance_sheet", kw)} :
            Call("get_balance_sheet", kw, Reached(b, be),
                 Entered(b, get_balance_sheet(b.value[1], b.value[2], be)))

Call_get_cash_flow ==
    \E kw \in StatementCalls(Symbols), be \in StatementBackends :
        \E b \in {Bind("get_cash_flow", kw)} :
            Call("get_cash_flow", kw, Reached(b, be),
                 Entered(b, get_cash_flow(b.value[1], b.value[2], be)))

Call_get_financial_ratios ==
    \E kw \in StatementCalls(Symbols), be \in RatioBackends :
        \E b \in {Bind("get_financial_ratios", kw)} :
            Call("get_financial_ratios", kw, Reached(b, be),
                 Entered(b, get_financial_ratios(b.value[1], b.value[2], be)))

Next ==
    \/ Call_get_stock_history
    \/ Call_get_forex_history
    \/ Call_get_crypto_history
    \/ Call_get_index_history
    \/ Call_get_income_statement
    \/ Call_get_balance_sheet
    \/ Call_get_cash_flow
    \/ Call_get_financial_ratios

Spec == Init /\ [][Next]_vars

-----------------------------------------------------------------------------
(* Two calls running concurrently, one statement of a tool body at a time *)

\* the body of tool t applied to the bound values v, as one step
Apply(t, v, be) ==
    CASE t = "get_stock_history" -> get_stock_history(v[1], v[2], v[3], v[4], be)
      [] t = "get_forex_history" -> get_forex_history(v[1], v[2], v[3], v[4], be)
      [] t = "get_crypto_history" -> get_crypto_history(v[1], v[2], v[3], v[4], be)
      [] t = "get_index_history" -> get_index_history(v[1], v[2], v[3], v[4], be)
      [] t = "get_income_statement" -> get_income_statement(v[1], v[2], be)
      [] t = "get_balance_sheet" -> get_balance_sheet(v[1], v[2], be)
      [] t = "get_cash_flow" -> get_cash_flow(v[1], v[2], be)
      [] t = "get_financial_ratios" -> get_financial_ratios(v[1], v[2], be)

\* the no-data and the error f-strings of tool t for the bound values v
NoDataText(t, v) ==
    CASE t = "get_stock_history" ->
            "No data found for " \o v[1] \o " between " \o v[2] \o " and " \o v[3]
      [] t = "get_forex_history" ->
            "No forex data found for " \o v[1] \o " between " \o v[2] \o " and " \o v[3]
      [] t = "get_crypto_history" ->
            "No crypto data found for " \o v[1] \o " between " \o v[2] \o " and " \o v[3]
      [] t = "get_index_history" ->
            "No index data found for " \o v[1] \o " between " \o v[2] \o " and " \o v[3]
      [] t = "get_income_statement" -> "No income statement data found for " \o v[1]
      [] t = "get_balance_sheet" -> "No balance sheet data found for " \o v[1]
      [] t = "get_cash_flow" -> "No cash flow data found for " \o v[1]
      [] t = "get_financial_ratios" -> "No financial ratio data found for " \o v[1]

ErrorText(t, v) ==
    CASE t = "get_stock_history" -> "Error fetching stock data: "
      [] t = "get_forex_history" -> "Error fetching forex data: "
      [] t = "get_crypto_history" -> "Error fetching crypto data: "
      [] t = "get_index_history" -> "Error fetching index data: "
      [] t = "get_income_statement" -> "Error fetching income statement for " \o v[1] \o ": "
      [] t = "get_balance_sheet" -> "Error fetching balance sheet for " \o v[1] \o ": "
      [] t = "get_cash_flow" -> "Error fetching cash flow for " \o v[1] \o ": "
      [] t = "get_financial_ratios" -> "Error fetching financial ratios for " \o v[1] \o ": "

Threads == {1, 2}
Other(i) == CHOOSE j \in Threads : j # i

\* a fetch that neither returns nor raises: the call stays inside the adapter
Blocked == [kind |-> "blocked"]

\* what the backend may do during a call of t, tables of at most one row
BackendsOf(t) ==
    { be \in (IF t \in PriceTools THEN PriceBackends
              ELSE IF t = "get_financial_ratios" THEN RatioBackends
              ELSE StatementBackends) :
        (be.fetch.kind = "return" /\ be.fetch.value # None) => Len(be.fetch.value.rows) <= 1 }
    \cup { [fetch |-> Blocked, construct |-> Ok, flatten |-> Unreached] }

\* the requests of the concurrent calls: one per tool
RequestOf(t) ==
    CASE t = "get_stock_history" -> PriceArgs("VCI", <<"2024-01-01", "2024-01-31", "1D">>)
      [] t = "get_forex_history" -> PriceArgs("vci", <<"2024-01-31", "2024-01-01", "1W">>)
      [] t = "get_crypto_history" -> PriceArgs("VCI", <<"31/01/2024", "", "5m">>)
      [] t = "get_index_history" ->
            [symbol |-> "VCI", start_date |-> "2024-01-01", end_date |-> "2024-01-31"]
      [] t = "get_income_statement" -> StatementArgs("INVALIDSYMBOL", "en")
      [] t = "get_balance_sheet" -> [symbol |-> "VCI"]
      [] t = "get_cash_flow" -> [symbol |-> "VCI", language |-> "vi"]
      [] t = "get_financial_ratios" -> StatementArgs("vci", "vi")

\* a call about to start: its request, what the backend will do during it,
\* its position, its locals (the bound parameters v, the table df), what it
\* gave its caller, and whether it ran a step while the other call was under way
Started(t, be) ==
    [tool |-> t, kw |-> RequestOf(t), be |-> be, pc |-> "call", v |-> << >>, df |-> None,
     response |-> "", raised |-> NoException, overlapped |-> FALSE]

StartedCalls == UNION { { Started(t, be) : be \in BackendsOf(t) } : t \in Tools }

\* the table the running call reads: its own local df
LocalDf_Shared(cs, i) == cs[1].df

LocalDf(cs, i) == cs[i].df

Underway(c) == c.pc \notin {"call", "done"}

\* return text / leave with e / go on to statement pc
ReturnText(c, text) == [c EXCEPT !.pc = "done", !.response = text]
Leave(c, e) == [c EXCEPT !.pc = "done", !.raised = e]
Goto(c, pc) == [c EXCEPT !.pc = pc]

\* except Exception as e: return f"Error fetching ...: {str(e)}"
Except(c, e) ==
    IF except_Exception(e) THEN ReturnText(c, ErrorText(c.tool, c.v) \o str(e)) ELSE Leave(c, e)

\* thread i runs one statement, which takes its call to `next`
Step(i, next) ==
    /\ calls' = [calls EXCEPT ![i] =
                    [next EXCEPT !.overlapped = calls[i].overlapped \/ Underway(calls[Other(i)])]]
    /\ UNCHANGED <<tool, args, backend, trace, response, raised, repeat, first>>

\* the call: the keyword arguments are bound to the parameters
At_call(i) ==
    /\ calls[i].pc = "call"
    /\ \E b \in {Bind(calls[i].tool, calls[i].kw)} :
          Step(i, IF IsRaise(b) THEN Leave(calls[i], b)
                  ELSE [calls[i] EXCEPT !.pc = "construct", !.v = b.value])

\* quote = Quote(...) / stock = Vnstock().stock(...); finance = stock.finance
At_construct(i) ==
    /\ calls[i].pc = "construct"
    /\ Step(i, IF /\ calls[i].tool \in StatementTools \cup {"get_index_history"}
                  /\ IsRaise(symbol_upper(calls[i].v[1]))
               THEN Except(calls[i], symbol_upper(calls[i].v[1]))
               ELSE IF IsRaise(calls[i].be.construct)
               THEN Except(calls[i], calls[i].be.construct)
               ELSE Goto(calls[i], "fetch"))

\* a fetch abandoned after a wait of the layer's own, with an error sentinel
Fetched_Timeout(c) ==
    IF c.be.fetch = Blocked THEN {ReturnText(c, ErrorText(c.tool, c.v) \o "timed out")}
    ELSE IF IsRaise(c.be.fetch) THEN {Except(c, c.be.fetch)}
    ELSE {[c EXCEPT !.pc = "test", !.df = c.be.fetch.value]}

\* where the call c is after its fetch statement: nowhere as long as the
\* adapter neither returns nor raises
Fetched(c) ==
    IF c.be.fetch = Blocked THEN {}
    ELSE IF IsRaise(c.be.fetch) THEN {Except(c, c.be.fetch)}
    ELSE {[c EXCEPT !.pc = "test", !.df = c.be.fetch.value]}

\* df = quote.history(...) / df = finance.<statement>(...)
At_fetch(i) ==
    /\ calls[i].pc = "fetch"
    /\ \E next \in Fetched(calls[i]) : Step(i, next)

\* if df is None or df.empty: return f"No ... data found for ..."
At_test(i) ==
    /\ calls[i].pc = "test"
    /\ Step(i, IF IsRaise(NoDataTest(LocalDf(calls, i)))
               THEN Except(calls[i], NoDataTest(LocalDf(calls, i)))
               ELSE IF NoData(LocalDf(calls, i))
               THEN ReturnText(calls[i], NoDataText(calls[i].tool, calls[i].v))
               ELSE Goto(calls[i], IF calls[i].tool = "get_financial_ratios"
                                   THEN "flatten" ELSE "to_json"))

\* flattened_df = flatten_hierarchical_index(df, ...)
At_flatten(i) ==
    /\ calls[i].pc = "flatten"
    /\ Step(i, IF IsRaise(calls[i].be.flatten) THEN Except(calls[i], calls[i].be.flatten)
               ELSE [calls[i] EXCEPT !.pc = "to_json", !.df = calls[i].be.flatten.value])

\* return df.to_json(orient="records", date_format="iso", indent=2)
At_to_json(i) ==
    /\ calls[i].pc = "to_json"
    /\ \E json \in {to_json(LocalDf(calls, i))} :
          Step(i, IF IsRaise(json) THEN Except(calls[i], json)
                  ELSE ReturnText(calls[i], json.value))

InitConcurrent ==
    /\ tool = "none"
    /\ args = NoArgs
    /\ backend = NoBackend
    /\ trace = << >>
    /\ response = ""
    /\ raised = NoException
    /\ repeat = FALSE
    /\ first = NoCall
    /\ calls \in { <<c1, c2>> : c1 \in StartedCalls, c2 \in StartedCalls }

Step_call == \E i \in Threads : At_call(i)
Step_construct == \E i \in Threads : At_construct(i)
Step_fetch == \E i \in Threads : At_fetch(i)
Step_test == \E i \in Threads : At_test(i)
Step_flatten == \E i \in Threads : At_flatten(i)
Step_to_json == \E i \in Threads : At_to_json(i)

NextConcurrent ==
    \/ Step_call
    \/ Step_construct
    \/ Step_fetch
    \/ Step_test
    \/ Step_flatten
    \/ Step_to_json

SpecConcurrent == InitConcurrent /\ [][NextConcurrent]_vars

\* the statements of thread i
Thread(i) ==
    \/ At_call(i)
    \/ At_construct(i)
    \/ At_fetch(i)
    \/ At_test(i)
    \/ At_flatten(i)
    \/ At_to_json(i)

\* the tools whose concurrent calls are followed to their end: two price
\* tools, a statement tool and the ratios tool
FairTools ==
    {"get_stock_history", "get_index_history", "get_cash_flow", "get_financial_ratios"}

InitFair ==
    /\ InitConcurrent
    /\ \A i \in Threads : calls[i].tool \in FairTools

\* every thread that can run a statement eventually runs one
SpecFair == InitFair /\ [][NextConcurrent]_vars /\ \A i \in Threads : WF_vars(Thread(i))

\* what the call c gives when it runs alone, as one step
Sequential(c) ==
    LET b == Bind(c.tool, c.kw)
    IN  IF IsRaise(b) THEN Propagated(b, << >>) ELSE Apply(c.tool, b.value, c.be)

-----------------------------------------------------------------------------
(* Direct calls of the tool functions: Python checks no annotation, so a
   caller can pass, and the adapter can return, an object of any type *)

\* direct calls of t: the symbol a str object, or the int 123
DirectCalls(t) ==
    LET symbols == IF t = "get_index_history" THEN {"vnindex", "DJI"} \cup IntTexts
                   ELSE {"VCI", "vci"} \cup IntTexts
    IN  IF t \in PriceTools
        THEN { PriceArgs(symbol, <<"2024-01-01", "2024-01-31", "1D">>) : symbol \in symbols }
        ELSE { StatementArgs(symbol, "en") : symbol \in symbols }

\* what the backend may do during a direct call of t: what it may do during
\* any call, or its fetch returns an object that is not a table
DirectBackends(t) ==
    { be \in BackendsOf(t) : be.fetch # Blocked }
    \cup { [fetch |-> Return(d), construct |-> Ok, flatten |-> Unreached] : d \in NotTables }

Direct(t) ==
    \E kw \in DirectCalls(t), be \in DirectBackends(t) :
        \E b \in {Bind(t, kw)} :
            Call(t, kw, Reached(b, be), Entered(b, Apply(t, b.value, be)))

Direct_get_stock_history == Direct("get_stock_history")
Direct_get_forex_history == Direct("get_forex_history")
Direct_get_crypto_history == Direct("get_crypto_history")
Direct_get_index_history == Direct("get_index_history")
Direct_get_income_statement == Direct("get_income_statement")
Direct_get_balance_sheet == Direct("get_balance_sheet")
Direct_get_cash_flow == Direct("get_cash_flow")
Direct_get_financial_ratios == Direct("get_financial_ratios")

NextDirect ==
    \/ Direct_get_stock_history
    \/ Direct_get_forex_history
    \/ Direct_get_crypto_history
    \/ Direct_get_index_history
    \/ Direct_get_income_statement
    \/ Direct_get_balance_sheet
    \/ Direct_get_cash_flow
    \/ Direct_get_financial_ratios

SpecDirect == Init /\ [][NextDirect]_vars

-----------------------------------------------------------------------------
(* Vocabulary of the properties *)

FetchOps == {"history", "income_statement", "balance_sheet", "cash_flow", "ratio"}

\* the body of a tool function was entered
Called == tool # "none" /\ backend # NoBackend

\* the adapter raised, in its construction or in its fetch
AdapterRaised == IsRaise(backend.construct) \/ IsRaise(backend.fetch)
AdapterFailure == IF IsRaise(backend.construct) THEN backend.construct ELSE backend.fetch

\* the adapter returned, and what it returned is None or has no row or no column
AdapterReturned == backend.construct.kind = "ok" /\ backend.fetch.kind = "return"
Absent(v) == v = None \/ Len(v.rows) = 0 \/ Len(v.columns) = 0
AdapterNoData == AdapterReturned /\ Absent(backend.fetch.value)
AdapterData == AdapterReturned /\ ~Absent(backend.fetch.value)

Invoked(op) == \E i \in 1..Len(trace) : trace[i].op = op
Count(ops) == Cardinality({i \in 1..Len(trace) : trace[i].op \in ops})

ErrorShape(s) == StartsWith(s, "Error fetching")
NoDataShape(s) == StartsWith(s, "No ") /\ Contains(s, "data found")
JsonArrayShape(s) == Len(s) >= 2 /\ Head(s) = "[" /\ SubSeq(s, Len(s), Len(s)) = "]"

\* no JSON text starts with a character outside these
JsonStart == {"[", "{", "\"", "-", "0", "1", "2", "3", "4", "5", "6", "7", "8", "9",
              "t", "f", "n", " ", "\n"}
NotJson(s) == s = "" \/ Head(s) \notin JsonStart

-----------------------------------------------------------------------------
(* C1 *)

\* C1: whenever the adapter of any of the eight tools raises, in its
\* construction or in its fetch, an exception (an instance of Exception) with
\* message m, the tool returns a string that contains "Error fetching" and
\* contains m, and nothing is propagated to the caller.
C1_ErrorSentinel ==
    (Called /\ AdapterRaised /\ AdapterFailure.cls \in ExceptionClasses)
        => /\ raised = NoException
           /\ Contains(response, "Error fetching")
           /\ Contains(response, AdapterFailure.msg)

C1_Witness ==
    /\ tool = "get_financial_ratios"
    /\ backend.construct = Raise("ValueError", "No data found")
    /\ response = "Error fetching financial ratios for vci: No data found"

-----------------------------------------------------------------------------
(* C2 *)

NoDataPrefix(t) ==
    CASE t = "get_stock_history" -> "No data found for "
      [] t = "get_forex_history" -> "No forex data found for "
      [] t = "get_crypto_history" -> "No crypto data found for "
      [] t = "get_index_history" -> "No index data found for "

\* C2: for every price-history tool, symbol s, start date a and end date b, if
\* the adapter returns an empty table or None the response is exactly the
\* sentinel naming s, a and b, is not JSON, and no serialization is attempted.
C2_NoDataSentinel ==
    (tool \in PriceTools /\ AdapterNoData)
        => /\ raised = NoException
           /\ response = NoDataPrefix(tool) \o args.symbol \o " between "
                           \o args.start_date \o " and " \o args.end_date
           /\ NotJson(response)
           /\ ~Invoked("to_json")

C2_Witness ==
    /\ tool = "get_stock_history"
    /\ backend.fetch = Return(Table(PriceColumns, << >>))
    /\ response = "No data found for VCI between 2024-01-01 and 2024-01-31"

-----------------------------------------------------------------------------
(* C3 *)

\* C3: for every index request the domestic-exchange adapter (Quote, source
\* VCI) is selected if and only if the upper-cased symbol is VNINDEX, HNXINDEX
\* or UPCOMINDEX, every other symbol selects the international adapter
\* (world_index, source MSN), and exactly one of the two is invoked.
C3_IndexRouting ==
    tool = "get_index_history"
        => LET domestic == \E i \in 1..Len(trace) :
                              trace[i].op = "Quote" /\ trace[i].source = "VCI"
               international == \E i \in 1..Len(trace) :
                              trace[i].op = "world_index" /\ trace[i].source = "MSN"
           IN  /\ domestic <=> upper(args.symbol) \in {"VNINDEX", "HNXINDEX", "UPCOMINDEX"}
               /\ domestic <=> ~international
               /\ (args.symbol \in {"VNINDEX", "vnindex"} => domestic)
               /\ (args.symbol = "DJI" => international)

C3_Witness ==
    /\ tool = "get_index_history"
    /\ args.symbol = "vnindex"
    /\ Invoked("Quote")
    /\ ~Invoked("world_index")

-----------------------------------------------------------------------------
(* C4 *)

\* the table a statement tool serialized: the flattened one for the ratios
Serialized ==
    IF tool = "get_financial_ratios" THEN backend.flatten.value ELSE backend.fetch.value

YearColumn(df) ==
    CHOOSE i \in 1..Len(df.columns) : df.columns[i][Len(df.columns[i])] = "yearReport"

\* the rows of df in ascending order of yearReport
ByYear(df) ==
    LET n == Len(df.rows)
        y == YearColumn(df)
        order == CHOOSE p \in [1..n -> 1..n] :
                    /\ \A i, j \in 1..n : p[i] = p[j] => i = j
                    /\ \A i, j \in 1..n : i < j => df.rows[p[i]][y].v <= df.rows[p[j]][y].v
    IN  Table(df.columns, [i \in 1..n |-> df.rows[order[i]]])

\* C4: for all four financial-statement tools the rows of a JSON response are
\* in ascending order of yearReport, whatever order the adapter returned them
\* in.
C4_RowsAscendingByYear ==
    (tool \in StatementTools /\ raised = NoException /\ JsonArrayShape(response))
        => response = JsonText(ByYear(Serialized))

-----------------------------------------------------------------------------
(* C5 *)

\* a step after a fetch that returned data raised: the flattening (ratios) or
\* the serialization, which refuses column names that are not unique
LaterStepRaised ==
    /\ AdapterData
    /\ IF tool = "get_financial_ratios"
       THEN IsRaise(backend.flatten) \/ ~IsUnique(backend.flatten.value.columns)
       ELSE ~IsUnique(backend.fetch.value.columns)
LaterFailure ==
    IF tool = "get_financial_ratios" /\ IsRaise(backend.flatten) THEN backend.flatten
    ELSE Raise("ValueError", "DataFrame columns must be unique for orient='records'.")

\* C5 as stated: every response is one of three shapes; it starts with
\* "Error fetching" if and only if the adapter call failed, it starts with
\* "No " and contains "data found" if and only if the adapter returned an
\* empty or absent table, and otherwise it is a JSON array.
C5_ShapesByAdapterOutcome ==
    Called
        => /\ ErrorShape(response) <=> AdapterRaised
           /\ NoDataShape(response) <=> AdapterNoData
           /\ (~AdapterRaised /\ ~AdapterNoData) => JsonArrayShape(response)

\* C5 as amended: every response a call returns is exactly one of the three
\* shapes; it starts with "Error fetching" if and only if a step of the call
\* raised an exception that is an instance of Exception (the adapter's
\* construction or fetch, or after a fetch that returned data the flattening
\* or the serialization), it starts with "No " and contains "data found" if
\* and only if the adapter returned an empty or absent table, and otherwise it
\* is a JSON array; a call that propagates a throwable returns no response.
C5_ShapesByCallOutcome ==
    Called
        => LET failure == IF AdapterRaised THEN AdapterFailure ELSE LaterFailure
               failed == AdapterRaised \/ LaterStepRaised
           IN  IF failed /\ failure.cls \notin ExceptionClasses
               THEN raised = failure /\ response = ""
               ELSE /\ raised = NoException
                    /\ ErrorShape(response) <=> failed
                    /\ NoDataShape(response) <=> AdapterNoData
                    /\ JsonArrayShape(response) <=> (~failed /\ ~AdapterNoData)
                    /\ ~(ErrorShape(response) /\ NoDataShape(response))
                    /\ ~(ErrorShape(response) /\ JsonArrayShape(response))
                    /\ ~(NoDataShape(response) /\ JsonArrayShape(response))

\* the serialization of a table the adapter returned fails, and the response
\* is an error sentinel although the adapter call succeeded
C5_Witness ==
    /\ tool = "get_crypto_history"
    /\ AdapterData
    /\ ~IsUnique(backend.fetch.value.columns)
    /\ response = "Error fetching crypto data: DataFrame columns must be unique for orient='records'."

-----------------------------------------------------------------------------
(* C6 *)

\* C6 as stated: no throwable of any kind raised by the backend escapes the
\* tool; every one is caught and turned into the error sentinel.
C6_EveryThrowableCaught ==
    (Called /\ AdapterRaised) => (raised = NoException /\ ErrorShape(response))

\* C6 as amended: every throwable raised by the backend that is an instance
\* of Exception is caught at the tool boundary and turned into the error
\* sentinel with its message; a throwable that derives from BaseException
\* only (KeyboardInterrupt, SystemExit) is not caught and escapes the tool,
\* which then returns nothing.
C6_ExceptionsCaughtOthersEscape ==
    (Called /\ AdapterRaised)
        => IF AdapterFailure.cls \in BaseOnlyClasses
           THEN raised = AdapterFailure /\ response = "" /\ ~Invoked("to_json")
           ELSE raised = NoException /\ ErrorShape(response)

C6_Witness ==
    /\ tool = "get_balance_sheet"
    /\ backend.fetch = Raise("KeyboardInterrupt", "")
    /\ raised = Raise("KeyboardInterrupt", "")
    /\ response = ""

-----------------------------------------------------------------------------
(* C9 *)

-----------------------------------------------------------------------------
(* C10 *)

\* C10: within one call the adapter's fetch operation is invoked at most
\* once, also when it raises or returns an empty table, and it is invoked in
\* every call that constructed its adapter, also in a call with the tool
\* and arguments of the call before it.
C10_FetchOncePerCall ==
    Called
        => /\ Count(FetchOps) <= 1
           /\ ~IsRaise(backend.construct) => Count(FetchOps) = 1
           /\ IsRaise(backend.construct) => Count(FetchOps) = 0

\* a call repeating the one before it, whose fetch raised, fetched once
C10_Witness ==
    /\ repeat
    /\ IsRaise(backend.fetch)
    /\ Count(FetchOps) = 1
    /\ ErrorShape(response)

-----------------------------------------------------------------------------
(* C11 *)

StatementName(t) ==
    CASE t = "get_income_statement" -> "income statement"
      [] t = "get_balance_sheet" -> "balance sheet"
      [] t = "get_cash_flow" -> "cash flow"
      [] t = "get_financial_ratios" -> "financial ratio"

-----------------------------------------------------------------------------
(* C12 *)

\* C12: a call of get_income_statement for which the adapter yields no data
\* or fails returns a string that contains "Error" or contains
\* "No data found".
C12_ErrorOrNoDataFound ==
    (tool = "get_income_statement" /\ (AdapterNoData \/ AdapterRaised))
        => (Contains(response, "Error") \/ Contains(response, "No data found"))

-----------------------------------------------------------------------------
(* C13 *)

\* the caller gave every keyword of `required` and none outside `required`
\* and `optional`
Keywords(required, optional) ==
    required \subseteq DOMAIN args /\ DOMAIN args \subseteq required \cup optional

\* the value the fetch operation of the latest call received under `name`
Forwarded(name) ==
    LET i == CHOOSE k \in 1..Len(trace) : trace[k].op \in FetchOps IN trace[i][name]

\* C13 as stated: the interface is exactly eight operations; a price-history
\* operation takes symbol, start_date, end_date and interval (default "1D"),
\* and a statement operation takes symbol and a keyword parameter named
\* language (default "en").
C13_ParameterNamedLanguage ==
    /\ Cardinality(Tools) = 8
    /\ tool \in Tools \cup {"none"}
    /\ tool \in PriceTools
          => /\ Called <=> Keywords({"symbol", "start_date", "end_date"}, {"interval"})
             /\ Count(FetchOps) = 1
                  => Forwarded("interval")
                       = (IF "interval" \in DOMAIN args THEN args.interval ELSE "1D")
    /\ tool \in StatementTools
          => /\ Called <=> Keywords({"symbol"}, {"language"})
             /\ Count(FetchOps) = 1
                  => Forwarded("lang")
                       = (IF "language" \in DOMAIN args THEN args.language ELSE "en")

\* C13 as amended: the interface is exactly eight operations; a price-history
\* operation takes symbol, start_date, end_date and interval (default "1D"),
\* and a statement operation takes symbol and a keyword parameter named lang
\* (default "en"); a call that gives the language under the keyword
\* `language` is not bound to any parameter: called directly, the function
\* raises TypeError before its body is entered, and nothing reaches the
\* backend.
C13_ParameterNamedLang ==
    /\ Cardinality(Tools) = 8
    /\ tool \in Tools \cup {"none"}
    /\ tool \in PriceTools
          => /\ Called <=> Keywords({"symbol", "start_date", "end_date"}, {"interval"})
             /\ Count(FetchOps) = 1
                  => Forwarded("interval")
                       = (IF "interval" \in DOMAIN args THEN args.interval ELSE "1D")
    /\ tool \in StatementTools
          => /\ Called <=> Keywords({"symbol"}, {"lang"})
             /\ Count(FetchOps) = 1
                  => Forwarded("lang") = (IF "lang" \in DOMAIN args THEN args.lang ELSE "en")
             /\ "language" \in DOMAIN args
                  => /\ IsRaise(raised) /\ raised.cls = "TypeError"
                     /\ response = ""
                     /\ trace = << >>

\* a statement tool called with the keyword `language`
C13_Witness ==
    /\ tool = "get_cash_flow"
    /\ args = [symbol |-> "VCI", language |-> "vi"]
    /\ raised = Raise("TypeError", "get_cash_flow() got an unexpected keyword argument 'language'")
    /\ response = ""
    /\ trace = << >>

-----------------------------------------------------------------------------
(* C14 *)

\* the adapter the latest call constructed: wrapper and source
Adapter ==
    IF trace[1].op = "Quote" THEN <<"Quote", trace[1].source, trace[1].symbol>>
    ELSE <<trace[2].op, trace[2].source, trace[2].symbol>>

\* C14: whatever the symbol and the dates, every stock request constructs the
\* domestic-exchange quote adapter (Quote, source VCI) and every forex and
\* every crypto request the synthetic-instrument quote adapter (Vnstock().fx
\* and Vnstock().crypto, source MSN), each for the symbol as the caller wrote
\* it, and constructs no other adapter.
C14_AdapterByTool ==
    (Called /\ tool \in {"get_stock_history", "get_forex_history", "get_crypto_history"})
        => /\ Adapter = CASE tool = "get_stock_history" -> <<"Quote", "VCI", args.symbol>>
                          [] tool = "get_forex_history" -> <<"fx", "MSN", args.symbol>>
                          [] tool = "get_crypto_history" -> <<"crypto", "MSN", args.symbol>>
           /\ Invoked("Quote") <=> tool = "get_stock_history"
           /\ Invoked("Vnstock") <=> tool # "get_stock_history"
           /\ ~Invoked("world_index")

\* a forex request for an upper-case symbol with the start after the end
C14_Witness ==
    /\ tool = "get_forex_history"
    /\ args.symbol = "VCI"
    /\ args.start_date = "2024-01-31" /\ args.end_date = "2024-01-01"
    /\ Adapter = <<"fx", "MSN", "VCI">>
    /\ Invoked("history")

-----------------------------------------------------------------------------
(* C15 *)

StatementOp(t) ==
    CASE t = "get_income_statement" -> "income_statement"
      [] t = "get_balance_sheet" -> "balance_sheet"
      [] t = "get_cash_flow" -> "cash_flow"
      [] t = "get_financial_ratios" -> "ratio"

\* C15: every statement request, for every symbol and language, constructs
\* the domestic-exchange financial-statement adapter (Vnstock().stock with
\* source VCI, then its finance) and no other, and its fetch is the
\* statement's own operation with period "year" and with lang equal to the
\* caller's value, or "en" when the caller gave none.
C15_StatementAdapter ==
    (Called /\ tool \in StatementTools)
        => /\ Len(trace) >= 3
           /\ trace[1].op = "Vnstock"
           /\ trace[2].op = "stock" /\ trace[2].source = "VCI"
           /\ trace[3].op = "finance"
           /\ ~Invoked("Quote") /\ ~Invoked("history")
           /\ ~IsRaise(backend.construct)
                => /\ trace[4] = [op |-> StatementOp(tool),
                                  lang |-> IF "lang" \in DOMAIN args THEN args.lang ELSE "en",
                                  period |-> "year"]
                   /\ Count(FetchOps) = 1

\* a balance sheet asked for without lang
C15_Witness ==
    /\ tool = "get_balance_sheet"
    /\ args = [symbol |-> "VCI"]
    /\ trace[4] = [op |-> "balance_sheet", lang |-> "en", period |-> "year"]
    /\ JsonArrayShape(response)

-----------------------------------------------------------------------------
(* C16 *)

\* C16: a price-history tool validates nothing: every call constructs its
\* adapter, and unless that raises, the history operation receives start_date
\* and end_date exactly as the caller wrote them (malformed, or the start
\* after the end) and the caller's interval (also one outside 1D, 1W, 1M), or
\* "1D" when the caller gave none; what the call returns is decided by what
\* the backend does, never by the values of the request.
C16_NoValidation ==
    tool \in PriceTools
        => /\ Called
           /\ Invoked("Quote") \/ Invoked("Vnstock")
           /\ ~IsRaise(backend.construct)
                => /\ Count({"history"}) = 1
                   /\ Forwarded("start") = args.start_date
                   /\ Forwarded("end") = args.end_date
                   /\ Forwarded("interval")
                        = (IF "interval" \in DOMAIN args THEN args.interval ELSE "1D")
           /\ AdapterData /\ IsUnique(backend.fetch.value.columns)
                => JsonArrayShape(response)
           /\ ~AdapterRaised => ~ErrorShape(response) \/ LaterStepRaised

\* malformed dates and an unknown interval went to the adapter, which
\* returned rows, and the rows are the response
C16_Witness ==
    /\ tool = "get_stock_history"
    /\ args.start_date = "31/01/2024" /\ args.end_date = "" /\ args.interval = "5m"
    /\ Forwarded("start") = "31/01/2024"
    /\ Forwarded("end") = ""
    /\ Forwarded("interval") = "5m"
    /\ JsonArrayShape(response)

-----------------------------------------------------------------------------
(* C17 *)

\* C17: the tool functions share no mutable state: when two calls run
\* concurrently, whatever the interleaving of their statements, each call
\* that has finished gave its caller exactly what it gives when it runs
\* alone, which is what the two calls give when run one after the other in
\* either order.
C17_InterleavingsAgree ==
    \A i \in DOMAIN calls :
        calls[i].pc = "done"
            => /\ calls[i].response = Sequential(calls[i]).response
               /\ calls[i].raised = Sequential(calls[i]).raised

\* two calls whose statements interleaved have both finished, the first with
\* rows and the second with an error sentinel
C17_Witness ==
    /\ calls # << >>
    /\ calls[1].pc = "done" /\ calls[2].pc = "done"
    /\ calls[1].overlapped /\ calls[2].overlapped
    /\ calls[1].tool = "get_financial_ratios" /\ JsonArrayShape(calls[1].response)
    /\ calls[2].tool = "get_stock_history" /\ ErrorShape(calls[2].response)

-----------------------------------------------------------------------------
(* C18 *)

\* the adapter call of c returns, or raises an exception (an instance of
\* Exception)
AdapterCompletes(c) ==
    /\ ~IsRaise(Bind(c.tool, c.kw))
    /\ \/ IsRaise(c.be.construct) /\ except_Exception(c.be.construct)
       \/ /\ c.be.construct = Ok
          /\ c.be.fetch # Blocked
          /\ IsRaise(c.be.fetch) => except_Exception(c.be.fetch)

\* the adapter call of c has begun and neither returns nor raises
AdapterBlocks(c) ==
    ~IsRaise(Bind(c.tool, c.kw)) /\ c.be.construct = Ok /\ c.be.fetch = Blocked

\* C18: every call whose adapter call returns or raises (an instance of
\* Exception) eventually returns a response string, and returns only one: a
\* call that has returned stays as it is; the layer has no timeout or
\* cancellation of its own, so a call whose adapter call does not complete
\* never returns, and a call returns only after its adapter call completed.
C18_ReturnsOnceAdapterDone ==
    /\ \A i \in Threads :
          AdapterCompletes(calls[i])
              ~> (calls[i].pc = "done" /\ calls[i].response # ""
                    /\ calls[i].raised = NoException)
    /\ [](\A i \in Threads :
            AdapterBlocks(calls[i]) => (calls[i].pc # "done" /\ calls[i].response = ""))
    /\ [][\A i \in Threads : calls[i].pc = "done" => calls'[i] = calls[i]]_vars

\* one call has returned rows while the other is still inside its adapter
C18_Witness ==
    /\ calls # << >>
    /\ calls[1].pc = "fetch" /\ AdapterBlocks(calls[1]) /\ calls[1].response = ""
    /\ calls[2].pc = "done" /\ AdapterCompletes(calls[2]) /\ JsonArrayShape(calls[2].response)
    /\ calls[2].overlapped

-----------------------------------------------------------------------------
(* C21 *)

\* the yearReport values of the row objects of a JSON response, in the order
\* of the array
ResponseYears(s) ==
    CHOOSE ys \in UNION { YearOrders(n) : n \in 0..MaxRows } :
        JsonText(StatementTable(ys)) = s

\* an income statement asked for in English and then, for the same symbol, in
\* Vietnamese, the adapter returning the same rows both times and both
\* responses being JSON
EnglishThenVietnamese ==
    /\ tool = "get_income_statement" /\ tool' = "get_income_statement"
    /\ Keywords({"symbol", "lang"}, {}) /\ DOMAIN args' = DOMAIN args
    /\ args.symbol = args'.symbol
    /\ args.lang = "en" /\ args'.lang = "vi"
    /\ AdapterData /\ backend' = backend
    /\ JsonArrayShape(response) /\ JsonArrayShape(response')

\* C21: for the same symbol, get_income_statement called with lang "en" and
\* with lang "vi" returns the same sequence of yearReport values, and that
\* sequence is in ascending order.
C21_SameAscendingYears ==
    [][EnglishThenVietnamese
          => /\ ResponseYears(response) = ResponseYears(response')
             /\ LET ys == ResponseYears(response)
                IN  \A i, j \in 1..Len(ys) : i < j => ys[i] <= ys[j]]_vars

-----------------------------------------------------------------------------
(* C22 *)

\* where the text p occurs in s
Positions(s, p) == {i \in 1..(Len(s) - Len(p) + 1) : SubSeq(s, i, i + Len(p) - 1) = p}

\* the text of the k-th object of the array s, from its opening brace to its
\* closing one
Object(s, k) ==
    LET Nth(S, n) == CHOOSE x \in S : Cardinality({y \in S : y < x}) = n - 1
        start == Nth(Positions(s, "  {\n"), k)
        end == Nth({i \in Positions(s, "  }") : i > start}, 1)
    IN  SubSeq(s, start, end + 2)

\* the object o has the member that column `label` gives for the cell c
HasMember(o, label, c) ==
    LET member == "\"" \o LabelJson(label) \o "\":" \o CellJson(c)
    IN  Contains(o, member \o ",\n") \/ Contains(o, member \o "\n")

-----------------------------------------------------------------------------
(* C23 *)

\* C23: in get_index_history the upper-cased symbol only chooses the adapter:
\* the adapter chosen (domestic for VNINDEX, HNXINDEX and UPCOMINDEX in any
\* letter case, international otherwise) is constructed with the symbol
\* exactly as the caller wrote it, no backend operation receives another
\* spelling, and the no-data sentinel carries the caller's spelling too.
C23_IndexSymbolAsWritten ==
    (Called /\ tool = "get_index_history")
        => /\ Adapter = IF upper(args.symbol) \in {"VNINDEX", "HNXINDEX", "UPCOMINDEX"}
                        THEN <<"Quote", "VCI", args.symbol>>
                        ELSE <<"world_index", "MSN", args.symbol>>
           /\ \A i \in 1..Len(trace) :
                 "symbol" \in DOMAIN trace[i] => trace[i].symbol = args.symbol
           /\ AdapterNoData
                => response = "No index data found for " \o args.symbol \o " between "
                                \o args.start_date \o " and " \o args.end_date

\* "vnindex" routed to the domestic adapter, which is asked for "vnindex" and
\* has no data
C23_Witness ==
    /\ tool = "get_index_history"
    /\ args.symbol = "vnindex"
    /\ Adapter = <<"Quote", "VCI", "vnindex">>
    /\ AdapterNoData
    /\ response = "No index data found for vnindex between 2024-01-01 and 2024-01-31"

-----------------------------------------------------------------------------
(* C24 *)

\* the same statement tool called twice in a row, with the same lang and
\* with symbols that differ in letter case only, the backend doing the same
\* both times
CaseVariants ==
    /\ tool \in StatementTools /\ tool' = tool
    /\ Called /\ backend' = backend
    /\ Keywords({"symbol", "lang"}, {}) /\ DOMAIN args' = DOMAIN args
    /\ args'.lang = args.lang
    /\ args'.symbol # args.symbol
    /\ upper(args'.symbol) = upper(args.symbol)

\* C24: every statement tool constructs its adapter with the upper-cased
\* symbol, while every sentinel it returns carries the symbol exactly as the
\* caller wrote it; so two requests whose symbols differ in letter case only
\* invoke the same backend operations with the same arguments and, the
\* backend doing the same, return the same JSON on success but different
\* sentinels on an empty result or a failure.
C24_UpperToAdapterOriginalInSentinel ==
    /\ [](Called /\ tool \in StatementTools
            => /\ trace[2].symbol = upper(args.symbol)
               /\ \A i \in 1..Len(trace) :
                     "symbol" \in DOMAIN trace[i] => trace[i].symbol = upper(args.symbol)
               /\ (raised = NoException /\ ~JsonArrayShape(response))
                     => Contains(response, " for " \o args.symbol)
                        /\ (args.symbol # upper(args.symbol)
                              => ~Contains(response, upper(args.symbol))))
    /\ [][CaseVariants
            => /\ trace' = trace
               /\ raised' = raised
               /\ JsonArrayShape(response) => response' = response
               /\ (raised = NoException /\ ~JsonArrayShape(response))
                     => response' # response]_vars

\* the ratios asked for "VCI" and later for "vci", the fetch timing out both
\* times: the same adapter calls, two different error sentinels
C24_Witness ==
    /\ first # NoCall /\ first # Untracked
    /\ first[1] = "get_financial_ratios" /\ tool = "get_financial_ratios"
    /\ first[2] = [symbol |-> "VCI", lang |-> "en"]
    /\ args = [symbol |-> "vci", lang |-> "en"]
    /\ first[3] = backend
    /\ trace[2].symbol = "VCI"
    /\ first[4] = "Error fetching financial ratios for VCI: Connection timed out"
    /\ response = "Error fetching financial ratios for vci: Connection timed out"

-----------------------------------------------------------------------------
(* C25 *)

\* the first statement of the body of the latest call that raises, as
\* <<step, throwable>>, or << >> when none does: symbol.upper() (statement
\* tools and index tool), the construction of the adapter, the fetch, the
\* emptiness test, the flattening (ratios), the serialization
FirstFailure ==
    IF tool \in StatementTools \cup {"get_index_history"} /\ args.symbol \in IntTexts
    THEN <<"upper", Raise("AttributeError", "'int' object has no attribute 'upper'")>>
    ELSE IF IsRaise(backend.construct) THEN <<"construct", backend.construct>>
    ELSE IF IsRaise(backend.fetch) THEN <<"fetch", backend.fetch>>
    ELSE IF backend.fetch.value = [py |-> "dict"]
    THEN <<"test", Raise("AttributeError", "'dict' object has no attribute 'empty'")>>
    ELSE IF NoData(backend.fetch.value) THEN << >>
    ELSE IF tool = "get_financial_ratios" /\ IsRaise(backend.flatten)
    THEN <<"flatten", backend.flatten>>
    ELSE IF ~IsUnique(IF tool = "get_financial_ratios" THEN backend.flatten.value.columns
                      ELSE backend.fetch.value.columns)
    THEN <<"to_json",
           Raise("ValueError", "DataFrame columns must be unique for orient='records'.")>>
    ELSE << >>

\* C25: an exception (an instance of Exception) raised at any step of a tool
\* body, not only by the fetch, gives the error sentinel: when the
\* construction of the adapter, the upper-casing of a symbol that is not a
\* string, the emptiness test, the flattening of the ratios or the
\* serialization of a non-empty table raises, the call returns a string that
\* starts with "Error fetching" and ends with the message of the exception,
\* that is not JSON, nothing escapes to the caller and no later step of the
\* body is run.
C25_AnyStepToErrorSentinel ==
    (Called /\ FirstFailure # << >> /\ FirstFailure[2].cls \in ExceptionClasses)
        => LET EndsWith(s, p) ==
                   Len(s) >= Len(p) /\ SubSeq(s, Len(s) - Len(p) + 1, Len(s)) = p
               \* the operations that come after the step
               After(step) ==
                   CASE step = "upper" ->
                           {"stock", "Quote", "world_index", "finance"} \cup FetchOps
                               \cup {"flatten_hierarchical_index", "to_json"}
                     [] step = "construct" ->
                           FetchOps \cup {"flatten_hierarchical_index", "to_json"}
                     [] step \in {"fetch", "test"} -> {"flatten_hierarchical_index", "to_json"}
                     [] step = "flatten" -> {"to_json"}
                     [] step = "to_json" -> {}
           IN  /\ raised = NoException
               /\ StartsWith(response, "Error fetching")
               /\ EndsWith(response, ": " \o FirstFailure[2].msg)
               /\ NotJson(response)
               /\ Count(After(FirstFailure[1])) = 0

\* the adapter of the stock tool returned an object without `empty`
C25_Witness ==
    /\ tool = "get_stock_history"
    /\ backend.construct = Ok
    /\ backend.fetch = Return([py |-> "dict"])
    /\ Invoked("history") /\ ~Invoked("to_json")
    /\ raised = NoException
    /\ response = "Error fetching stock data: 'dict' object has no attribute 'empty'"

-----------------------------------------------------------------------------
(* C26 *)

\* C26: the flattening of the columns is applied by get_financial_ratios
\* only, once, and only to a table that has rows and columns; the income
\* statement, balance sheet and cash flow tools and the four price-history
\* tools never invoke it, and their JSON responses name the members by the
\* column names of the adapter's table, unchanged.
C26_FlatteningByRatiosOnly ==
    Called
        => /\ Invoked("flatten_hierarchical_index")
                <=> (tool = "get_financial_ratios" /\ AdapterData)
           /\ Count({"flatten_hierarchical_index"}) <= 1
           /\ (tool # "get_financial_ratios" /\ raised = NoException
                                               /\ JsonArrayShape(response))
                => /\ AdapterData
                   /\ LET df == backend.fetch.value
                      IN  \* each column name is a member name once per row,
                          \* and there is no other member
                          /\ \A j \in 1..Len(df.columns) :
                                Cardinality(Positions(response,
                                    "    \"" \o LabelJson(df.columns[j]) \o "\":"))
                                  = Len(df.rows)
                          /\ Cardinality(Positions(response, "\":"))
                                = Len(df.rows) * Len(df.columns)

\* a cash flow statement serialized under the adapter's column names
C26_Witness ==
    /\ tool = "get_cash_flow"
    /\ AdapterData
    /\ backend.fetch.value.columns = << <<"yearReport">>, <<"Revenue (Bn. VND)">> >>
    /\ ~Invoked("flatten_hierarchical_index")
    /\ Invoked("to_json")
    /\ Contains(response, "\"yearReport\":2021")
    /\ Contains(response, "\"Revenue (Bn. VND)\":21")

====
